---- MODULE Spec2Model ----
(***************************************************************************)
(* A model of daybook's in-memory ledger engine (src/daybook/Ledger.py):   *)
(* Transaction, Account, Hints and Ledger.  Python objects live in heaps   *)
(* and are named by references, so that "the same instance" is a fact of   *)
(* the state.  Strings are TLA+ strings, handled with Len, SubSeq and \o.  *)
(***************************************************************************)
EXTENDS Integers, Sequences, FiniteSets, TLC

VARIABLES
    accounts,             \* Ledger.accounts: name -> reference of an Account
    transactions,         \* Ledger.transactions: list of Transaction references
    unique_transactions,  \* Ledger.unique_transactions: the dict's entries
    heapAcc,              \* the Account objects the ledger constructed
    heapTx,               \* the Transaction objects the ledger constructed
    hints,                \* Ledger.hints.hints: (key, value) pairs in load order
    callerAcc,            \* Account objects constructed outside addAccount
    callerTx,             \* Transaction objects constructed outside addTransaction
    call,                 \* the call in progress: its name and arguments
    ret                   \* what the call returned or raised

vars == <<accounts, transactions, unique_transactions, heapAcc, heapTx, hints,
          callerAcc, callerTx, call, ret>>

(***************************************************************************)
(* Bounds of the model.                                                    *)
(***************************************************************************)
MaxTrans == 2
MaxRows == 2
MaxFiles == 2

(***************************************************************************)
(* Python values.                                                          *)
(***************************************************************************)
\* None, for an optional datetime: datetimes are the integers from 1 on and
\* every datetime is truthy, so "not start" is "start is None".
None == 0

Range(s) == {s[i] : i \in DOMAIN s}

\* F(v), with v evaluated once: a statement's result handed to the next
Bind(v, F(_)) == CHOOSE r \in {F(x) : x \in {v}} : TRUE

\* s[i:] of a string
StrFrom(s, i) == SubSeq(s, i, Len(s))

\* key in s, for strings: key occurs somewhere within s
StrContains(key, s) ==
    \E i \in 1..(Len(s) + 1) : i + Len(key) - 1 <= Len(s)
                               /\ SubSeq(s, i, i + Len(key) - 1) = key

\* Position of the first sep (one character) in s, 0 if there is none.
RECURSIVE FindChar(_, _, _)
FindChar(s, sep, i) ==
    IF i > Len(s) THEN 0
    ELSE IF SubSeq(s, i, i) = sep THEN i
    ELSE FindChar(s, sep, i + 1)

\* s.split(sep): the pieces between the seps, empty pieces included
RECURSIVE StrSplit(_, _)
StrSplit(s, sep) ==
    LET p == FindChar(s, sep, 1)
    IN IF p = 0 THEN <<s>>
       ELSE <<SubSeq(s, 1, p - 1)>> \o StrSplit(StrFrom(s, p + 1), sep)

\* sep.join(l)
RECURSIVE StrJoin(_, _)
StrJoin(l, sep) ==
    IF Len(l) = 0 THEN ""
    ELSE IF Len(l) = 1 THEN l[1]
    ELSE l[1] \o sep \o StrJoin(Tail(l), sep)

\* [x for x in l if x]
NonEmpty(l) == SelectSeq(l, LAMBDA x : x # "")

\* {x for x in tags if x} if tags else set()
TagSet(tags) == {x \in tags : x # ""}

(***************************************************************************)
(* Amounts.  Transaction accepts an int or a float.  A number is kept with *)
(* its Python type and sign bit: 1 and 1.0 compare equal and print         *)
(* differently, and so do 0.0 and -0.0.  Only whole numbers are modelled,  *)
(* which floats add exactly.                                               *)
(***************************************************************************)
Int_(n) == [k |-> "int", neg |-> n < 0, mag |-> IF n < 0 THEN -n ELSE n]
Float_(neg, mag) == [k |-> "float", neg |-> neg, mag |-> mag]

\* the number an amount is, as == and + see it
Num(a) == IF a.neg THEN -a.mag ELSE a.mag

\* str(amount), as '{}'.format prints it
AmountStr(a) ==
    IF a.k = "int" THEN ToString(Num(a))
    ELSE (IF a.neg THEN "-" ELSE "") \o ToString(a.mag) \o ".0"

DigitVal(c) ==
    CASE c = "0" -> 0 [] c = "1" -> 1 [] c = "2" -> 2 [] c = "3" -> 3
      [] c = "4" -> 4 [] c = "5" -> 5 [] c = "6" -> 6 [] c = "7" -> 7
      [] c = "8" -> 8 [] c = "9" -> 9 [] OTHER -> -1

\* the value of a string of digits, -1 if it is empty or holds anything else
RECURSIVE DigitsVal(_, _)
DigitsVal(s, acc) ==
    IF s = "" THEN acc
    ELSE IF DigitVal(SubSeq(s, 1, 1)) < 0 THEN -1
    ELSE DigitsVal(StrFrom(s, 2), 10 * acc + DigitVal(SubSeq(s, 1, 1)))

\* float(text) for a signed string of digits; anything else is a ValueError
ParseFloat(text) ==
    LET neg == Len(text) > 0 /\ SubSeq(text, 1, 1) = "-"
        body == IF neg THEN StrFrom(text, 2) ELSE text
        v == IF body = "" THEN -1 ELSE DigitsVal(body, 0)
    IN IF v < 0 THEN [err |-> "ValueError"]
       ELSE [err |-> "", val |-> Float_(neg, v)]

\* dateparser.parse(text): a datetime, or None for a text it cannot read.
\* The texts modelled are day numbers.
ParseDate(text) ==
    LET v == IF text = "" THEN -1 ELSE DigitsVal(text, 0)
    IN IF v < 1 THEN None ELSE v

\* str(datetime)
DateStr(d) == ToString(d)

(***************************************************************************)
(* Account.                                                                *)
(***************************************************************************)
\* Account.types
AccountTypes == {"asset", "expense", "income", "liability", "receivable"}

\* Account(name, type_, tags): the new object, or the ValueError it raises
NewAccount(name, type_, tags) ==
    IF type_ \notin AccountTypes THEN [err |-> "ValueError"]
    ELSE IF StrContains(" ", name) THEN [err |-> "ValueError"]
    ELSE [err |-> "",
          obj |-> [name |-> name, type |-> type_, tags |-> TagSet(tags),
                   transactions |-> <<>>]]

\* A createFromList that reads the first three of four or more tokens
CreateFromListFirstThree(l_) ==
    IF Len(l_) = 1 THEN NewAccount(l_[1], "asset", {})
    ELSE IF Len(l_) = 2 THEN
        IF l_[2] \in AccountTypes THEN NewAccount(l_[1], l_[2], {})
        ELSE NewAccount(l_[1], "asset", Range(StrSplit(l_[2], ":")))
    ELSE IF Len(l_) >= 3 THEN
        NewAccount(l_[1], l_[2], Range(NonEmpty(StrSplit(l_[3], ":"))))
    ELSE [err |-> "ValueError"]

\* Account.createFromList(l_)
CreateFromList(l_) ==
    IF Len(l_) = 1 THEN NewAccount(l_[1], "asset", {})
    ELSE IF Len(l_) = 2 THEN
        IF l_[2] \in AccountTypes THEN NewAccount(l_[1], l_[2], {})
        ELSE NewAccount(l_[1], "asset", Range(StrSplit(l_[2], ":")))
    ELSE IF Len(l_) = 3 THEN
        NewAccount(l_[1], l_[2], Range(NonEmpty(StrSplit(l_[3], ":"))))
    ELSE [err |-> "ValueError"]

(***************************************************************************)
(* Hints.  The dict is the sequence of its (key, value) pairs in insertion *)
(* order, keys distinct.                                                   *)
(***************************************************************************)
\* self.hints[key] = value: an assignment to a key the dict has leaves
\* the key where it is
DictSet(h, key, value) ==
    IF \E i \in DOMAIN h : h[i][1] = key
    THEN [i \in DOMAIN h |-> IF h[i][1] = key THEN <<key, value>> ELSE h[i]]
    ELSE Append(h, <<key, value>>)

\* the inner loop of Hints.load: self.hints[line] = key for the lines of
\* one option
RECURSIVE HintsLoadLines(_, _, _)
HintsLoadLines(h, key, lines) ==
    IF lines = <<>> THEN h
    ELSE HintsLoadLines(DictSet(h, Head(lines), key), key, Tail(lines))

\* Hints.load, items the (key, lines) pairs of the ini's hints section,
\* lines the value's lines: each non-empty line becomes a key of the dict
RECURSIVE HintsLoad(_, _)
HintsLoad(h, items) ==
    IF items = <<>> THEN h
    ELSE HintsLoad(HintsLoadLines(h, Head(items)[1], NonEmpty(Head(items)[2])),
                   Tail(items))

\* A suggest that does not look for the string itself first
HintsSuggestFirstContained(h, string) ==
    IF \E i \in DOMAIN h : StrContains(h[i][1], string)
    THEN LET first == CHOOSE i \in DOMAIN h :
                        /\ StrContains(h[i][1], string)
                        /\ \A j \in 1..(i - 1) : ~StrContains(h[j][1], string)
         IN h[first][2]
    ELSE ""

\* Hints.suggest(string)
HintsSuggest(h, string) ==
    IF \E i \in DOMAIN h : h[i][1] = string
    THEN h[CHOOSE i \in DOMAIN h : h[i][1] = string][2]
    ELSE IF \E i \in DOMAIN h : StrContains(h[i][1], string)
    THEN LET first == CHOOSE i \in DOMAIN h :
                        /\ StrContains(h[i][1], string)
                        /\ \A j \in 1..(i - 1) : ~StrContains(h[j][1], string)
         IN h[first][2]
    ELSE ""

(***************************************************************************)
(* The heaps.  A state S of the objects is a record of the ledger's three  *)
(* collections and the four heaps.  A positive reference names an object   *)
(* the ledger constructed, a negative one an object constructed elsewhere  *)
(* (by the caller, or by loadCsv before it commits).                       *)
(***************************************************************************)
Acct(S, r) == IF r > 0 THEN S.heapAcc[r] ELSE S.callerAcc[-r]

Txn(S, r) == IF r > 0 THEN S.heapTx[r] ELSE S.callerTx[-r]

SetAcct(S, r, v) ==
    IF r > 0 THEN [S EXCEPT !.heapAcc[r] = v] ELSE [S EXCEPT !.callerAcc[-r] = v]

SetTxn(S, r, v) ==
    IF r > 0 THEN [S EXCEPT !.heapTx[r] = v] ELSE [S EXCEPT !.callerTx[-r] = v]

(***************************************************************************)
(* Transaction.                                                            *)
(***************************************************************************)
\* Transaction(date, src, dest, amount, tags, notes) with date a datetime,
\* src and dest Account references and amount an int or a float
NewTransaction(date, src, dest, amount, tags, notes) ==
    [date |-> date, src |-> src, dest |-> dest, amount |-> amount,
     tags |-> TagSet(tags), notes |-> notes]

\* Transaction.addTags / Account.addTags: the tag set after the update
AddTags(old, tags) == old \cup {x \in tags : x # ""}

\* Transaction.__hash__: the hash of the formatted string, taken to be the
\* string itself (distinct strings hash apart)
TxHash(S, r) ==
    DateStr(Txn(S, r).date) \o Acct(S, Txn(S, r).src).name
        \o Acct(S, Txn(S, r).dest).name \o AmountStr(Txn(S, r).amount)

\* Transaction.__eq__
TxEq(S, r1, r2) ==
    /\ Txn(S, r1).date = Txn(S, r2).date
    /\ Acct(S, Txn(S, r1).src).name = Acct(S, Txn(S, r2).src).name
    /\ Acct(S, Txn(S, r1).dest).name = Acct(S, Txn(S, r2).dest).name
    /\ Num(Txn(S, r1).amount) = Num(Txn(S, r2).amount)

\* A lookup that finds no entry
DictFindNothing(S, t) == {}

\* The entries of unique_transactions a lookup of t finds: a dict compares
\* the stored hash first, then identity or __eq__.
DictFind(S, t) ==
    {e \in S.unique_transactions :
        e.hash = TxHash(S, t) /\ (e.key = t \/ TxEq(S, e.key, t))}

(***************************************************************************)
(* Ledger.                                                                 *)
(***************************************************************************)
\* An addAccount that takes the argument's type for an account it has
AddAccountOverwritesType(S, account) ==
    LET a == Acct(S, account)
    IN IF a.name \in DOMAIN S.accounts
       THEN LET r == S.accounts[a.name]
            IN [S |-> SetAcct(S, r, [Acct(S, r) EXCEPT
                                        !.tags = AddTags(@, a.tags),
                                        !.type = a.type]),
                ret |-> r]
       ELSE LET r == Len(S.heapAcc) + 1
                new == NewAccount(a.name, a.type, a.tags).obj
            IN [S |-> [S EXCEPT !.heapAcc = Append(@, new),
                                !.accounts = (a.name :> r) @@ @],
                ret |-> r]

\* An addAccount that registers the argument itself where the name is new
AddAccountKeepsArgument(S, account) ==
    LET a == Acct(S, account)
    IN IF a.name \in DOMAIN S.accounts
       THEN LET r == S.accounts[a.name]
            IN [S |-> SetAcct(S, r, [Acct(S, r) EXCEPT
                                        !.tags = AddTags(@, a.tags)]),
                ret |-> r]
       ELSE [S |-> [S EXCEPT !.accounts = (a.name :> account) @@ @],
             ret |-> account]

\* Ledger.addAccount(account): the state after it and the reference returned
AddAccount(S, account) ==
    LET a == Acct(S, account)
    IN IF a.name \in DOMAIN S.accounts
       THEN LET r == S.accounts[a.name]
            IN [S |-> SetAcct(S, r, [Acct(S, r) EXCEPT
                                        !.tags = AddTags(@, a.tags)]),
                ret |-> r]
       ELSE LET r == Len(S.heapAcc) + 1
                new == NewAccount(a.name, a.type, a.tags).obj
            IN [S |-> [S EXCEPT !.heapAcc = Append(@, new),
                                !.accounts = (a.name :> r) @@ @],
                ret |-> r]

\* t = Transaction(t.date, t.src, t.dest, t.amount, t.tags, t.notes): the
\* copy is the next object of the heap
CopyTransaction(S, t) ==
    [S EXCEPT !.heapTx = Append(@,
        NewTransaction(Txn(S, t).date, Txn(S, t).src, Txn(S, t).dest,
                       Txn(S, t).amount, Txn(S, t).tags, Txn(S, t).notes))]

\* t.src = self.addAccount(t.src)
ResolveSrc(S, n) ==
    Bind(AddAccount(S, Txn(S, n).src),
         LAMBDA A : SetTxn(A.S, n, [Txn(A.S, n) EXCEPT !.src = A.ret]))

\* A resolution of dest that registers the account and keeps the argument's
ResolveDestKeepsArgument(S, n) ==
    Bind(AddAccount(S, Txn(S, n).dest), LAMBDA A : A.S)

\* t.dest = self.addAccount(t.dest)
ResolveDest(S, n) ==
    Bind(AddAccount(S, Txn(S, n).dest),
         LAMBDA A : SetTxn(A.S, n, [Txn(A.S, n) EXCEPT !.dest = A.ret]))

\* account.transactions.append(t)
IndexIn(S, account, n) ==
    SetAcct(S, account, [Acct(S, account) EXCEPT !.transactions = Append(@, n)])

\* A commit that leaves t out of its dest's transactions
CommitTransactionSrcOnly(S, n) ==
    Bind([S EXCEPT !.transactions = Append(@, n)], LAMBDA S3 :
    Bind(IndexIn(S3, Txn(S3, n).src, n), LAMBDA S4 :
         [S4 EXCEPT !.unique_transactions =
             @ \cup {[hash |-> TxHash(S4, n), key |-> n, val |-> n]}]))

\* commit the transaction: the four statements that record t
CommitTransaction(S, n) ==
    Bind([S EXCEPT !.transactions = Append(@, n)], LAMBDA S3 :
    Bind(IndexIn(S3, Txn(S3, n).src, n), LAMBDA S4 :
    Bind(IndexIn(S4, Txn(S4, n).dest, n), LAMBDA S5 :
         [S5 EXCEPT !.unique_transactions =
             @ \cup {[hash |-> TxHash(S5, n), key |-> n, val |-> n]}])))

\* A merge that gives the stored transaction the argument's tags
MergeTransactionReplacesTags(S, t) ==
    LET internal == (CHOOSE e \in DictFind(S, t) : TRUE).val
    IN [S |-> SetTxn(S, internal, [Txn(S, internal) EXCEPT
                                      !.tags = TagSet(Txn(S, t).tags)]),
        ret |-> internal]

\* A merge that also gives the argument's src and dest to addAccount
MergeTransactionAddsAccounts(S, t) ==
    LET internal == (CHOOSE e \in DictFind(S, t) : TRUE).val
    IN Bind(AddAccount(S, Txn(S, t).src), LAMBDA A :
       Bind(AddAccount(A.S, Txn(S, t).dest), LAMBDA B :
            [S |-> SetTxn(B.S, internal, [Txn(B.S, internal) EXCEPT
                                             !.tags = AddTags(@, Txn(S, t).tags)]),
             ret |-> internal]))

\* the else branch of addTransaction: merge t's tags into the stored one
MergeTransaction(S, t) ==
    LET internal == (CHOOSE e \in DictFind(S, t) : TRUE).val
    IN [S |-> SetTxn(S, internal, [Txn(S, internal) EXCEPT
                                      !.tags = AddTags(@, Txn(S, t).tags)]),
        ret |-> internal]

\* Ledger.addTransaction(t): the state after it and the reference returned
AddTransaction(S, t) ==
    IF DictFind(S, t) = {}
    THEN LET n == Len(S.heapTx) + 1
         IN Bind(CopyTransaction(S, t), LAMBDA S0 :
            Bind(ResolveSrc(S0, n), LAMBDA S1 :
            Bind(ResolveDest(S1, n), LAMBDA S2 :
                 [S |-> CommitTransaction(S2, n), ret |-> n])))
    ELSE MergeTransaction(S, t)

\* Ledger.addTransactions(transactions, func): func is the set of the
\* references it accepts; the state after and the list of references returned
RECURSIVE AddTransactions(_, _, _)
AddTransactions(S, ts, func) ==
    IF ts = <<>> THEN [S |-> S, ret |-> <<>>]
    ELSE IF Head(ts) \notin func THEN AddTransactions(S, Tail(ts), func)
    ELSE Bind(AddTransaction(S, Head(ts)), LAMBDA one :
         Bind(AddTransactions(one.S, Tail(ts), func), LAMBDA rest :
              [S |-> rest.S, ret |-> <<one.ret>> \o rest.ret]))

\* Ledger.suggestAccount(string, thisname): the Account it returns, or the
\* exception it raises ("   ".split(' ') leaves no token, and l_[0] is then
\* an IndexError)
SuggestAccount(S, h, string, thisname) ==
    Bind(NonEmpty(StrSplit(string, " ")), LAMBDA l0 :
        IF l0 = <<>> THEN [err |-> "IndexError"]
        ELSE LET l1 == IF l0[1] = "this" THEN [l0 EXCEPT ![1] = thisname]
                       ELSE l0
                 suggestion == IF l1[1] \notin DOMAIN S.accounts
                               THEN HintsSuggest(h, StrJoin(l1, " ")) ELSE ""
             IN CreateFromList(IF suggestion # "" THEN <<suggestion>> ELSE l1))

\* Position of the last sep (one character) in s at or before i, 0 if none.
RECURSIVE FindLastChar(_, _, _)
FindLastChar(s, sep, i) ==
    IF i < 1 THEN 0
    ELSE IF SubSeq(s, i, i) = sep THEN i
    ELSE FindLastChar(s, sep, i - 1)

\* os.path.basename(path)
BaseName(path) == StrFrom(path, FindLastChar(path, "/", Len(path)) + 1)

\* os.path.splitext(name)[0] of a name without directories: the name up to
\* its last dot, leading dots not counting
SplitExtRoot(name) ==
    LET p == FindLastChar(name, ".", Len(name))
    IN IF p = 0 \/ \A i \in 1..(p - 1) : SubSeq(name, i, i) = "." THEN name
       ELSE SubSeq(name, 1, p - 1)

\* One pass of loadCsv's loop body over a row: the Transaction built of it,
\* allocated with its two Accounts outside the ledger, or the exception.
ParseRow(S, h, row, thisname) ==
    Bind(SuggestAccount(S, h, row.src, thisname), LAMBDA src :
    IF src.err # "" THEN [err |-> src.err] ELSE
    Bind(SuggestAccount(S, h, row.dest, thisname), LAMBDA dest :
    IF dest.err # "" THEN [err |-> dest.err] ELSE
    Bind(ParseFloat(row.amount), LAMBDA amount :
    IF amount.err # "" THEN [err |-> amount.err] ELSE
    Bind(ParseDate(row.date), LAMBDA date :
    IF date = None THEN [err |-> "ValueError"] ELSE
    LET tags == NonEmpty(StrSplit(row.tags, ":"))
        na == Len(S.callerAcc)
        nt == Len(S.callerTx)
    IN [err |-> "",
        S |-> [S EXCEPT
                !.callerAcc = @ \o <<src.obj, dest.obj>>,
                !.callerTx = Append(@,
                    NewTransaction(date, -(na + 1), -(na + 2), amount.val,
                                   Range(tags), row.notes))],
        t |-> -(nt + 1)]))))

\* loadCsv's loop from row i on, line_num as the loop finds it: the list
\* newtrans, or the exception of the first row that raises.  The body never
\* assigns line_num.
RECURSIVE ParseRows(_, _, _, _, _, _, _)
ParseRows(S, h, rows, thisname, i, line_num, newtrans) ==
    IF i > Len(rows) THEN [err |-> "", S |-> S, newtrans |-> newtrans]
    ELSE Bind(ParseRow(S, h, rows[i], thisname), LAMBDA one :
         IF one.err = "ValueError"
         THEN [err |-> "ValueError", S |-> S, line |-> line_num, row |-> i,
               newtrans |-> newtrans]
         ELSE IF one.err # ""
         THEN [err |-> one.err, S |-> S, line |-> None, row |-> i,
               newtrans |-> newtrans]
         ELSE ParseRows(one.S, h, rows, thisname, i + 1, line_num,
                        Append(newtrans, one.t)))

\* A loadCsv that commits the rows read before the one that raises
LoadCsvCommitsAsItGoes(S, h, csvfile) ==
    Bind(ParseRows(S, h, csvfile.rows, SplitExtRoot(BaseName(csvfile.path)),
                   1, 1, <<>>), LAMBDA parsed :
         Bind(AddTransactions(parsed.S, parsed.newtrans,
                              Range(parsed.newtrans)), LAMBDA added :
              IF parsed.err # ""
              THEN [err |-> parsed.err, S |-> added.S, file |-> csvfile.path,
                    line |-> parsed.line, row |-> parsed.row]
              ELSE [err |-> "", S |-> added.S, ret |-> added.ret]))

\* Ledger.loadCsv(csvfile), the file's rows as csv.DictReader yields them
LoadCsv(S, h, csvfile) ==
    Bind(ParseRows(S, h, csvfile.rows, SplitExtRoot(BaseName(csvfile.path)),
                   1, 1, <<>>), LAMBDA parsed :
         IF parsed.err # ""
         THEN [err |-> parsed.err, S |-> parsed.S, file |-> csvfile.path,
               line |-> parsed.line, row |-> parsed.row]
         ELSE Bind(AddTransactions(parsed.S, parsed.newtrans,
                                   Range(parsed.newtrans)), LAMBDA added :
                   [err |-> "", S |-> added.S, ret |-> added.ret]))

\* A load that goes on to the later files after one raises
RECURSIVE LoadSkipsFailed(_, _, _, _)
LoadSkipsFailed(S, h, csvfiles, i) ==
    IF i > Len(csvfiles) THEN [err |-> "", S |-> S]
    ELSE Bind(LoadCsv(S, h, csvfiles[i]), LAMBDA one :
              IF one.err # ""
              THEN [one EXCEPT !.S = LoadSkipsFailed(one.S, h, csvfiles,
                                                     i + 1).S] @@ [at |-> i]
              ELSE LoadSkipsFailed(one.S, h, csvfiles, i + 1))

\* Ledger.load(csvfiles) from file i on: the exception of the first file
\* that raises ends it
RECURSIVE Load(_, _, _, _)
Load(S, h, csvfiles, i) ==
    IF i > Len(csvfiles) THEN [err |-> "", S |-> S]
    ELSE Bind(LoadCsv(S, h, csvfiles[i]), LAMBDA one :
              IF one.err # "" THEN one @@ [at |-> i]
              ELSE Load(one.S, h, csvfiles, i + 1))

\* Transaction.__lt__(self, other)
TxLt(S, self, other) == Txn(S, self).date < Txn(S, other).date

\* t put into the sorted list q behind every element that is not after it
RECURSIVE SortInsert(_, _, _)
SortInsert(S, q, t) ==
    IF q = <<>> THEN <<t>>
    ELSE IF TxLt(S, t, Head(q)) THEN <<t>> \o q
    ELSE <<Head(q)>> \o SortInsert(S, Tail(q), t)

\* list.sort() of a list of transactions: in date order, those of one date
\* in the order they had
RECURSIVE SortList(_, _, _)
SortList(S, q, sorted) ==
    IF q = <<>> THEN sorted
    ELSE SortList(S, Tail(q), SortInsert(S, sorted, Head(q)))

\* Ledger.sort()
Sort(S) ==
    [S EXCEPT !.transactions = SortList(S, @, <<>>),
              !.heapAcc = [r \in DOMAIN @ |->
                  [@[r] EXCEPT !.transactions = SortList(S, @, <<>>)]]]

\* Does Account.balance(start, end) count a transaction of this date?
InRange(start, end, date) ==
    \/ start = None /\ end = None
    \/ start # None /\ end # None /\ start <= date /\ date <= end
    \/ start # None /\ start <= date
    \/ end # None /\ date <= end

\* Account.balance(start, end) of the account self, over the rest ts of
\* its transactions
RECURSIVE BalanceLoop(_, _, _, _, _, _)
BalanceLoop(S, self, ts, start, end, balance) ==
    IF ts = <<>> THEN balance
    ELSE LET trans == Txn(S, Head(ts))
             b1 == IF InRange(start, end, trans.date) /\ self = trans.src
                   THEN balance - Num(trans.amount) ELSE balance
             b2 == IF InRange(start, end, trans.date) /\ self = trans.dest
                   THEN b1 + Num(trans.amount) ELSE b1
         IN BalanceLoop(S, self, Tail(ts), start, end, b2)

\* Account.balance(start, end)
Balance(S, self, start, end) ==
    BalanceLoop(S, self, Acct(S, self).transactions, start, end, 0)

(***************************************************************************)
(* The inputs the model draws from.                                        *)
(***************************************************************************)
MaxDate == 2
MaxBatch == 2

\* the bounds balance is asked with
BoundDates == {None} \cup 1..MaxDate

\* All sequences over set of length 1..n
RECURSIVE SeqsUpTo(_, _)
SeqsUpTo(set, n) ==
    IF n = 0 THEN {}
    ELSE {<<x>> : x \in set}
         \cup {Append(q, x) : q \in SeqsUpTo(set, n - 1), x \in set}

\* Accounts a caller constructs
ArgAccounts ==
    {NewAccount("a", "asset", {}).obj,
     NewAccount("a", "income", {"x", ""}).obj,
     NewAccount("b", "expense", {"y"}).obj}

\* Transactions a caller constructs, src and dest being Accounts of its own
\* (one Account object for both when same)
ArgTx(date, src, dest, same, amount, tags) ==
    [date |-> date, src |-> src, dest |-> dest, same |-> same,
     amount |-> amount, tags |-> tags]

ArgTxs ==
    LET a1 == NewAccount("a", "asset", {}).obj
        a2 == NewAccount("a", "income", {"x", ""}).obj
        b1 == NewAccount("b", "expense", {"y"}).obj
    IN {ArgTx(1, a1, b1, FALSE, Int_(1), {}),
        ArgTx(1, a2, b1, FALSE, Int_(1), {"y", ""}),
        ArgTx(1, a2, b1, FALSE, Float_(FALSE, 1), {"x"}),
        ArgTx(2, b1, a1, FALSE, Int_(1), {}),
        ArgTx(2, a1, a1, TRUE, Float_(FALSE, 2), {}),
        ArgTx(3, a1, b1, FALSE, Int_(3), {"x"})}

\* the transactions addTransactions is given lists of
BatchTxs == {t \in ArgTxs : t.date = 1 /\ t.tags # {}}

\* The caller's objects for the transactions ts, appended to the heaps
RECURSIVE Construct(_, _)
Construct(S, ts) ==
    IF ts = <<>> THEN S
    ELSE LET t == Head(ts)
             na == Len(S.callerAcc)
         IN Construct(
              [S EXCEPT
                 !.callerAcc = @ \o (IF t.same THEN <<t.src>>
                                     ELSE <<t.src, t.dest>>),
                 !.callerTx = Append(@,
                     NewTransaction(t.date, -(na + 1),
                                    IF t.same THEN -(na + 1) ELSE -(na + 2),
                                    t.amount, t.tags, ""))],
              Tail(ts))

\* rows of a csv file, as csv.DictReader yields them
Row(date, src, dest, amount, tags, notes) ==
    [date |-> date, src |-> src, dest |-> dest, amount |-> amount,
     tags |-> tags, notes |-> notes]

GoodRows ==
    {Row("1", "a", "b", "1", "x:", "n"),
     Row("2", "this", "a income", "2", "", ""),
     Row("1", "a k", "b", "1", "", "")}

BadRows ==
    {Row("x", "a", "b", "1", "", ""),
     Row("1", "a bogus t", "b", "1", "", ""),
     Row("1", "a", "b", "z", "", ""),
     Row("1", " ", "b", "1", "", "")}

Paths == {"d/chk.csv", "a.csv"}

\* the texts and default names suggestAccount is asked with
SuggestTexts ==
    {"a", "this", "this income x:y", "b  liability", "a x::y", "b bogus t",
     "a b c d", " ", "hk", "a k"}

ThisNames == {"chk", "b"}

\* the files loadCsv is given when imports are studied: at most one row of
\* a file is invalid, and the path varies where a row says "this"
CsvFiles ==
    {f \in {[path |-> p, rows |-> rs] :
                p \in Paths, rs \in SeqsUpTo(GoodRows \cup BadRows, MaxRows)} :
        /\ Cardinality({i \in DOMAIN f.rows : f.rows[i] \in BadRows}) <= 1
        /\ f.path = "a.csv" \/ \E i \in DOMAIN f.rows : f.rows[i].src = "this"}

\* files a client imports
FileA == [path |-> "a.csv", rows |-> <<Row("1", "a", "b", "1", "x", "")>>]

FileChk ==
    [path |-> "d/chk.csv",
     rows |-> <<Row("2", "this", "a income", "2", "", "")>>]

FileBad ==
    [path |-> "a.csv",
     rows |-> <<Row("2", "b", "this", "2", "y", ""),
                Row("1", "a", "b", "z", "", "")>>]

FileDup == [path |-> "d/chk.csv", rows |-> <<Row("1", "a", "b", "1", "y", "")>>]

BatchFiles == {FileA, FileChk, FileBad, FileDup}

\* the lists of files Ledger.load is given
LoadBatches == SeqsUpTo(BatchFiles, MaxFiles)

Batches ==
    {<<FileA, FileChk>>, <<FileA, FileBad, FileChk>>, <<FileDup, FileA>>}

\* the hints a ledger is constructed with
HintConfigs == {<<>>, << <<"k", "g">>, <<"hk", "b">> >>}

(***************************************************************************)
(* The state machine: a client calls the ledger's operations one at a      *)
(* time; each call runs to its end in one step, and the client then drops  *)
(* the arguments and the result before the next call.                      *)
(***************************************************************************)
Idle == [op |-> "idle"]
NoRet == [err |-> ""]

\* Ledger.__init__
Init ==
    /\ accounts = <<>>
    /\ transactions = <<>>
    /\ unique_transactions = {}
    /\ heapAcc = <<>>
    /\ heapTx = <<>>
    /\ hints \in HintConfigs
    /\ callerAcc = <<>>
    /\ callerTx = <<>>
    /\ call = Idle
    /\ ret = NoRet

\* the objects as the variables hold them
Cur ==
    [accounts |-> accounts, transactions |-> transactions,
     unique_transactions |-> unique_transactions,
     heapAcc |-> heapAcc, heapTx |-> heapTx,
     callerAcc |-> callerAcc, callerTx |-> callerTx]

Becomes(S) ==
    /\ accounts' = S.accounts
    /\ transactions' = S.transactions
    /\ unique_transactions' = S.unique_transactions
    /\ heapAcc' = S.heapAcc
    /\ heapTx' = S.heapTx
    /\ callerAcc' = S.callerAcc
    /\ callerTx' = S.callerTx
    /\ UNCHANGED hints

\* ledger.addTransaction(t), t one of txs
CallAddTransaction(txs) ==
    /\ call = Idle
    /\ \E t \in txs :
        \E R \in {Bind(Construct(Cur, <<t>>),
                        LAMBDA S0 : AddTransaction(S0, -1))} :
           /\ Len(R.S.transactions) <= MaxTrans
           /\ Becomes(R.S)
           /\ call' = [op |-> "addTransaction", t |-> -1]
           /\ ret' = [err |-> "", val |-> R.ret]

\* ledger.addTransactions(ts, func), func accepting the references in it
CallAddTransactions ==
    /\ call = Idle
    /\ \E ts \in SeqsUpTo(BatchTxs, MaxBatch) :
        \E S0 \in {Construct(Cur, ts)}, refs \in {[i \in 1..Len(ts) |-> -i]} :
        \E func \in {Range(refs)} \cup {Range(refs) \ {r} : r \in Range(refs)} :
        \E R \in {AddTransactions(S0, refs, func)} :
               /\ Len(R.S.transactions) <= MaxTrans
               /\ Becomes(R.S)
               /\ call' = [op |-> "addTransactions", ts |-> refs,
                           func |-> func]
               /\ ret' = [err |-> "", val |-> R.ret]

\* ledger.addAccount(account), account an Account of the caller's or one
\* the ledger returned earlier
CallAddAccount ==
    /\ call = Idle
    /\ \/ \E a \in ArgAccounts :
            \E R \in {Bind([Cur EXCEPT !.callerAcc = <<a>>],
                            LAMBDA S0 : AddAccount(S0, -1))} :
               /\ Becomes(R.S)
               /\ call' = [op |-> "addAccount", account |-> -1]
               /\ ret' = [err |-> "", val |-> R.ret]
       \/ \E r \in DOMAIN heapAcc :
            \E R \in {Bind(Cur, LAMBDA S0 : AddAccount(S0, r))} :
               /\ Becomes(R.S)
               /\ call' = [op |-> "addAccount", account |-> r]
               /\ ret' = [err |-> "", val |-> R.ret]

\* ledger.loadCsv(csvfile), csvfile one of files
CallLoadCsv(files) ==
    /\ call = Idle
    /\ \E f \in files :
        \E R \in {Bind(Cur, LAMBDA S0 : LoadCsv(S0, hints, f))} :
           /\ Len(R.S.transactions) <= MaxTrans
           /\ Becomes(R.S)
           /\ call' = [op |-> "loadCsv", csvfile |-> f]
           /\ ret' = [x \in DOMAIN R \ {"S"} |-> R[x]]

\* ledger.load(csvfiles), csvfiles one of batches
CallLoad(batches) ==
    /\ call = Idle
    /\ \E fs \in batches :
        \E R \in {Bind(Cur, LAMBDA S0 : Load(S0, hints, fs, 1))} :
           /\ Len(R.S.transactions) <= MaxTrans
           /\ Becomes(R.S)
           /\ call' = [op |-> "load", csvfiles |-> fs]
           /\ ret' = [x \in DOMAIN R \ {"S"} |-> R[x]]

\* ledger.accounts[name].balance(start, end)
CallBalance ==
    /\ call = Idle
    /\ \E name \in DOMAIN accounts, start \in BoundDates, end \in BoundDates :
        /\ call' = [op |-> "balance", self |-> accounts[name],
                    start |-> start, end |-> end]
        /\ ret' = [err |-> "",
                   val |-> Balance(Cur, accounts[name], start, end)]
        /\ UNCHANGED <<accounts, transactions, unique_transactions, heapAcc,
                       heapTx, hints, callerAcc, callerTx>>

\* ledger.suggestAccount(string, thisname)
CallSuggestAccount ==
    /\ call = Idle
    /\ \E string \in SuggestTexts, thisname \in ThisNames :
        \E R \in {SuggestAccount(Cur, hints, string, thisname)} :
           /\ call' = [op |-> "suggestAccount", string |-> string,
                       thisname |-> thisname]
           /\ IF R.err = ""
              THEN /\ callerAcc' = <<R.obj>>
                   /\ ret' = [err |-> "", val |-> -1]
              ELSE /\ callerAcc' = <<>>
                   /\ ret' = [err |-> R.err]
           /\ UNCHANGED <<accounts, transactions, unique_transactions,
                          heapAcc, heapTx, hints, callerTx>>

\* ledger.sort()
CallSort ==
    /\ call = Idle
    /\ Becomes(Sort(Cur))
    /\ call' = [op |-> "sort"]
    /\ ret' = NoRet

\* the client drops its references
Return ==
    /\ call # Idle
    /\ call' = Idle
    /\ ret' = NoRet
    /\ callerAcc' = <<>>
    /\ callerTx' = <<>>
    /\ UNCHANGED <<accounts, transactions, unique_transactions, heapAcc,
                   heapTx, hints>>

\* The operations that change the ledger
Next ==
    \/ CallAddTransaction({t \in ArgTxs : t.date < 3})
    \/ CallAddTransactions
    \/ CallAddAccount
    \/ CallLoadCsv(BatchFiles)
    \/ CallLoad(Batches)
    \/ CallSort
    \/ Return

Spec == Init /\ [][Next]_vars

\* The imports, over more files, and suggestAccount
NextCsv ==
    \/ CallLoadCsv(CsvFiles)
    \/ CallLoad(LoadBatches)
    \/ CallSuggestAccount
    \/ Return

SpecCsv == Init /\ [][NextCsv]_vars

\* The balances of a ledger of added transactions
NextBalance ==
    \/ CallAddTransaction(ArgTxs)
    \/ CallBalance
    \/ Return

SpecBalance == Init /\ [][NextBalance]_vars

(***************************************************************************)
(* What the properties are stated with.                                    *)
(***************************************************************************)
\* the ledger's own part of the objects
LedgerOf(S) ==
    [accounts |-> S.accounts, transactions |-> S.transactions,
     unique_transactions |-> S.unique_transactions,
     heapAcc |-> S.heapAcc, heapTx |-> S.heapTx]

\* In a step that makes a call: the ledger before it with the arguments
\* the call is given
Pre == [Cur EXCEPT !.callerAcc = callerAcc', !.callerTx = callerTx']

\* A step that calls op
Calls(op) == call = Idle /\ call'.op = op

\* The sum of f(x) over the elements of a sequence
RECURSIVE SumSeq(_, _)
SumSeq(f(_), q) == IF q = <<>> THEN 0 ELSE f(Head(q)) + SumSeq(f, Tail(q))

\* The sum of f(x) over a finite set
RECURSIVE SumSet(_, _)
SumSet(f(_), set) ==
    IF set = {} THEN 0
    ELSE LET x == CHOOSE y \in set : TRUE
         IN f(x) + SumSet(f, set \ {x})

\* What the transaction t moves into the account r: its amount if r is its
\* dest, less its amount if r is its src
Moves(S, r, t) ==
    (IF Txn(S, t).dest = r THEN Num(Txn(S, t).amount) ELSE 0)
        - (IF Txn(S, t).src = r THEN Num(Txn(S, t).amount) ELSE 0)

\* the identity of a transaction: (date, src.name, dest.name, amount)
Identity(S, t) ==
    <<Txn(S, t).date, Acct(S, Txn(S, t).src).name,
      Acct(S, Txn(S, t).dest).name, Num(Txn(S, t).amount)>>

(***************************************************************************)
(* C1: no two entries of the ledger's transaction sequence have the same   *)
(* identity (date, src.name, dest.name, amount).                           *)
(***************************************************************************)
C1_NoTwoEntriesShareIdentity ==
    \A i, j \in DOMAIN transactions :
        i # j => Identity(Cur, transactions[i]) # Identity(Cur, transactions[j])

(***************************************************************************)
(* C2: addTransaction(t), when the ledger holds a transaction of t's       *)
(* identity, returns that transaction, constructs none, and leaves its     *)
(* tags as they were united with the non-empty tags of t.                  *)
(***************************************************************************)
C2_ExistingIdentityIsMerged ==
    [][Calls("addTransaction") =>
        \A k \in Range(transactions) :
            Identity(Pre, k) = Identity(Pre, call'.t) =>
                /\ ret'.val = k
                /\ Len(heapTx') = Len(heapTx)
                /\ heapTx'[k].tags =
                     heapTx[k].tags \cup {x \in Txn(Pre, call'.t).tags : x # ""}
      ]_vars

(***************************************************************************)
(* C3: a loadCsv of a file with a row that fails validation fails, and a   *)
(* loadCsv that fails leaves the account mapping, the transaction          *)
(* sequence, the dedup mapping and every account and transaction of the    *)
(* ledger as they were.                                                    *)
(***************************************************************************)
C3_FailedLoadCsvChangesNothing ==
    [][Calls("loadCsv") =>
        /\ (\E i \in DOMAIN call'.csvfile.rows :
                call'.csvfile.rows[i] \in BadRows) => ret'.err # ""
        /\ ret'.err # "" =>
              UNCHANGED <<accounts, transactions, unique_transactions,
                          heapAcc, heapTx>>
      ]_vars

\* A loadCsv has failed at the second row of a file, a valid row before it,
\* on a ledger that holds transactions
C3_Witness ==
    /\ call.op = "loadCsv"
    /\ ret.err = "ValueError"
    /\ ret.row = 2
    /\ call.csvfile.rows[1] \in GoodRows
    /\ transactions # <<>>

\* The ledger after each of the files is loaded by a loadCsv of its own, in
\* order, none of them failing
RECURSIVE Committed(_, _, _)
Committed(S, h, csvfiles) ==
    IF csvfiles = <<>> THEN S
    ELSE Committed([LoadCsv(S, h, Head(csvfiles)).S EXCEPT
                        !.callerAcc = <<>>, !.callerTx = <<>>],
                   h, Tail(csvfiles))

(***************************************************************************)
(* C4: a load that fails at its k-th file leaves the ledger as the loadCsv *)
(* of each of the files 1..k-1 in order leaves it: what they committed is  *)
(* there, on top of what the ledger had, and nothing of file k or of a     *)
(* later file is.                                                          *)
(***************************************************************************)
C4_FailedLoadKeepsEarlierFiles ==
    [][(Calls("load") /\ ret'.err # "") =>
        LET k == ret'.at
            earlier == SubSeq(call'.csvfiles, 1, k - 1)
        IN /\ \A i \in 1..(k - 1) :
                  LoadCsv(Committed(Cur, hints, SubSeq(earlier, 1, i - 1)),
                          hints, earlier[i]).err = ""
           /\ LedgerOf(Committed(Cur, hints, earlier))
                = [accounts |-> accounts', transactions |-> transactions',
                   unique_transactions |-> unique_transactions',
                   heapAcc |-> heapAcc', heapTx |-> heapTx']
           /\ SubSeq(transactions', 1, Len(transactions)) = transactions
           /\ \A name \in DOMAIN accounts :
                  name \in DOMAIN accounts' /\ accounts'[name] = accounts[name]
           /\ Len(transactions')
                <= Len(transactions) + SumSeq(LAMBDA f : Len(f.rows), earlier)
      ]_vars

\* A load of three files has failed at the second, whose first row is
\* valid, and the ledger holds what the first file committed
C4_Witness ==
    /\ call.op = "load"
    /\ ret.err # ""
    /\ ret.at = 2
    /\ Len(call.csvfiles) = 3
    /\ call.csvfiles[2].rows[1].amount = "2"
    /\ Len(transactions) = 1

(***************************************************************************)
(* C5: the error of a loadCsv that rejects a file for an invalid row names *)
(* the file and the line of the first invalid row: row n of the data is    *)
(* line n, or line n + 1 counting the header.                              *)
(***************************************************************************)
C5_ErrorNamesLineOfRow ==
    (call.op = "loadCsv" /\ ret.err = "ValueError") =>
        /\ ret.file = call.csvfile.path
        /\ ret.line \in {ret.row, ret.row + 1}

(***************************************************************************)
(* C6: balance(start, end) with both bounds given is the sum of what the   *)
(* account's transactions dated from start to end, both included, move     *)
(* into it: one dated before start or after end adds nothing.              *)
(***************************************************************************)
C6_BothBoundsAreInclusiveRange ==
    (/\ call.op = "balance"
     /\ call.start # None /\ call.end # None /\ call.start <= call.end) =>
        ret.val = SumSeq(LAMBDA t :
                            IF /\ call.start <= Txn(Cur, t).date
                               /\ Txn(Cur, t).date <= call.end
                            THEN Moves(Cur, call.self, t) ELSE 0,
                         Acct(Cur, call.self).transactions)

(***************************************************************************)
(* C7: the balance() of each account of the account mapping is the sum of  *)
(* the amounts of the ledger's transactions it is the dest of, less the    *)
(* sum of those it is the src of, and the balances of all the accounts sum *)
(* to zero.                                                                *)
(***************************************************************************)
C7_BalancesAreDoubleEntry ==
    /\ \A name \in DOMAIN accounts :
          Balance(Cur, accounts[name], None, None)
            = SumSeq(LAMBDA t : IF Txn(Cur, t).dest = accounts[name]
                                THEN Num(Txn(Cur, t).amount) ELSE 0,
                     transactions)
              - SumSeq(LAMBDA t : IF Txn(Cur, t).src = accounts[name]
                                  THEN Num(Txn(Cur, t).amount) ELSE 0,
                       transactions)
    /\ SumSet(LAMBDA name : Balance(Cur, accounts[name], None, None),
              DOMAIN accounts) = 0

\* An import has committed its transactions: the ledger holds two of them
\* and accounts of balances other than zero
C7_Witness ==
    /\ call.op \in {"loadCsv", "load", "addTransactions"}
    /\ ret.err = ""
    /\ Len(transactions) >= 2
    /\ Cardinality(DOMAIN accounts) >= 2
    /\ \E name \in DOMAIN accounts :
          Balance(Cur, accounts[name], None, None) # 0

(***************************************************************************)
(* C8: the src and the dest of each transaction of the ledger's sequence   *)
(* are the objects the account mapping holds under their names, never an   *)
(* object of the caller's.                                                 *)
(***************************************************************************)
C8_TransactionsReferToLedgerAccounts ==
    \A i \in DOMAIN transactions :
        \A r \in {heapTx[transactions[i]].src, heapTx[transactions[i]].dest} :
            /\ r \in DOMAIN heapAcc
            /\ heapAcc[r].name \in DOMAIN accounts
            /\ accounts[heapAcc[r].name] = r

\* An addTransaction has committed a second transaction, given accounts of
\* the caller's that differ from the ledger's of the same name
C8_Witness ==
    /\ call.op = "addTransaction"
    /\ Len(transactions) = 2
    /\ ret.val = transactions[2]
    /\ \E i \in DOMAIN callerAcc :
          /\ callerAcc[i].name \in DOMAIN accounts
          /\ callerAcc[i].type # heapAcc[accounts[callerAcc[i].name]].type

(***************************************************************************)
(* C9: addAccount(a) for a registered name unites a's tags with those of   *)
(* the account the mapping holds, leaves its type, its mapping and all     *)
(* else of it alone, and returns it; for a name not registered it          *)
(* registers a new account of a's name, type and tags and returns it.      *)
(***************************************************************************)
C9_AddAccountMergesOrRegisters ==
    [][Calls("addAccount") =>
        LET a == Acct(Pre, call'.account)
        IN IF a.name \in DOMAIN accounts
           THEN LET r == accounts[a.name]
                IN /\ ret'.val = r
                   /\ accounts' = accounts
                   /\ Len(heapAcc') = Len(heapAcc)
                   /\ heapAcc'[r] = [heapAcc[r] EXCEPT
                                        !.tags = @ \cup TagSet(a.tags)]
                   /\ heapAcc'[r].type = heapAcc[r].type
           ELSE /\ ret'.val = Len(heapAcc) + 1
                /\ DOMAIN accounts' = DOMAIN accounts \cup {a.name}
                /\ accounts'[a.name] = ret'.val
                /\ \A name \in DOMAIN accounts :
                      accounts'[name] = accounts[name]
                /\ heapAcc'[ret'.val] =
                     [name |-> a.name, type |-> a.type,
                      tags |-> TagSet(a.tags), transactions |-> <<>>]
      ]_vars

\* addAccount has been given an account of the caller's with tags, of a name
\* registered with another type
C9_Witness ==
    /\ call.op = "addAccount"
    /\ call.account = -1
    /\ callerAcc[1].tags # {}
    /\ callerAcc[1].type # heapAcc[ret.val].type

(***************************************************************************)
(* C10: suggestAccount(text, defaultName) of a text whose first token is   *)
(* "this" gives the account of the token list with "this" replaced by      *)
(* defaultName, whatever the hints hold.                                   *)
(***************************************************************************)
C10_ThisIsNeverHinted ==
    call.op = "suggestAccount" =>
        LET l_ == NonEmpty(StrSplit(call.string, " "))
        IN (l_ # <<>> /\ l_[1] = "this") =>
              LET made == CreateFromList([l_ EXCEPT ![1] = call.thisname])
              IN /\ ret.err = made.err
                 /\ made.err = "" => callerAcc[1] = made.obj

(***************************************************************************)
(* Hints on its own: Hints.load of an ini, then calls of suggest.          *)
(***************************************************************************)
MaxText == 3

\* the texts of at most n characters of chars
RECURSIVE TextsUpTo(_, _)
TextsUpTo(chars, n) ==
    IF n = 0 THEN {""}
    ELSE TextsUpTo(chars, n - 1)
         \cup {t \o c : t \in TextsUpTo(chars, n - 1), c \in chars}

\* the hints sections loaded: (account name, lines) pairs in file order
HintInis ==
    { <<>>,
      << <<"g", <<"k">> >>, <<"b", <<"hk">> >> >>,
      << <<"b", <<"hk", "">> >>, <<"g", <<"k">> >> >>,
      << <<"g", <<"k", "x">> >>, <<"b", <<"k">> >> >> }

\* the texts suggest is asked about
HintTexts == TextsUpTo({"h", "k", "x"}, MaxText)

InitHints ==
    /\ accounts = <<>>
    /\ transactions = <<>>
    /\ unique_transactions = {}
    /\ heapAcc = <<>>
    /\ heapTx = <<>>
    /\ hints \in {HintsLoad(<<>>, ini) : ini \in HintInis}
    /\ callerAcc = <<>>
    /\ callerTx = <<>>
    /\ call = Idle
    /\ ret = NoRet

\* ledger.hints.suggest(string)
CallHintsSuggest ==
    /\ call = Idle
    /\ \E string \in HintTexts :
        /\ call' = [op |-> "suggest", string |-> string]
        /\ ret' = [err |-> "", val |-> HintsSuggest(hints, string)]
    /\ UNCHANGED <<accounts, transactions, unique_transactions, heapAcc,
                   heapTx, hints, callerAcc, callerTx>>

NextHints ==
    \/ CallHintsSuggest
    \/ Return

SpecHints == InitHints /\ [][NextHints]_vars

\* key occurs in text
Occurs(key, text) ==
    \E a \in 1..(Len(text) + 1), b \in 0..Len(text) : SubSeq(text, a, b) = key

(***************************************************************************)
(* C11: suggest(text) is the name of the key that is text, if there is     *)
(* one; otherwise the name of the first key, in load order, that occurs in *)
(* text; otherwise the empty string.                                       *)
(***************************************************************************)
C11_ExactKeyThenFirstContained ==
    call.op = "suggest" =>
        LET exact == {i \in DOMAIN hints : hints[i][1] = call.string}
            within == {i \in DOMAIN hints : Occurs(hints[i][1], call.string)}
        IN /\ exact # {} => \A i \in exact : ret.val = hints[i][2]
           /\ (exact = {} /\ within # {}) =>
                 \E i \in within : /\ \A j \in within : i <= j
                                   /\ ret.val = hints[i][2]
           /\ within = {} => ret.val = ""

\* suggest has been asked about a text that is a key, an earlier key of
\* another name occurring in it
C11_Witness ==
    /\ call.op = "suggest"
    /\ \E i, j \in DOMAIN hints :
          /\ j < i
          /\ hints[i][1] = call.string
          /\ Occurs(hints[j][1], call.string)
          /\ hints[j][2] # hints[i][2]
          /\ ret.val = hints[i][2]

(***************************************************************************)
(* Account on its own: calls of Account.createFromList and of Account.     *)
(***************************************************************************)
MaxTokens == 4

\* the tokens createFromList is given lists of
Tokens == {"n", "income", "x:y", "a::b", "bogus", ""}

\* the token lists: none, or up to MaxTokens tokens
TokenLists == {<<>>} \cup SeqsUpTo(Tokens, MaxTokens)

InitAccount ==
    /\ accounts = <<>>
    /\ transactions = <<>>
    /\ unique_transactions = {}
    /\ heapAcc = <<>>
    /\ heapTx = <<>>
    /\ hints = <<>>
    /\ callerAcc = <<>>
    /\ callerTx = <<>>
    /\ call = Idle
    /\ ret = NoRet

\* Account.createFromList(l_)
CallCreateFromList ==
    /\ call = Idle
    /\ \E l_ \in TokenLists :
        \E R \in {CreateFromList(l_)} :
           /\ call' = [op |-> "createFromList", l_ |-> l_]
           /\ IF R.err = ""
              THEN /\ callerAcc' = <<R.obj>>
                   /\ ret' = [err |-> "", val |-> -1]
              ELSE /\ callerAcc' = <<>>
                   /\ ret' = [err |-> R.err]
    /\ UNCHANGED <<accounts, transactions, unique_transactions, heapAcc,
                   heapTx, hints, callerTx>>

\* the pieces of a colon-separated text that are not empty
Pieces(text) == {x \in Range(StrSplit(text, ":")) : x # ""}

(***************************************************************************)
(* C12: createFromList of 1 token gives the account of that name, asset,   *)
(* no tags; of 2 tokens the name with the second as type if it is a type,  *)
(* else asset with the second's non-empty colon-separated pieces as tags;  *)
(* of 3 tokens name, type and the third's pieces as tags, or ValueError if *)
(* the second is no type; of 0 or of 4 or more tokens ValueError.          *)
(***************************************************************************)
C12_CreateFromListByArity ==
    call.op = "createFromList" =>
        LET l_ == call.l_
            made(name, type, tags) ==
                /\ ret.err = ""
                /\ callerAcc[1] = [name |-> name, type |-> type,
                                   tags |-> tags, transactions |-> <<>>]
        IN CASE Len(l_) = 1 -> made(l_[1], "asset", {})
             [] Len(l_) = 2 /\ l_[2] \in AccountTypes -> made(l_[1], l_[2], {})
             [] Len(l_) = 2 /\ l_[2] \notin AccountTypes ->
                    made(l_[1], "asset", Pieces(l_[2]))
             [] Len(l_) = 3 /\ l_[2] \in AccountTypes ->
                    made(l_[1], l_[2], Pieces(l_[3]))
             [] OTHER -> ret.err = "ValueError"

\* createFromList has been given four tokens, the first three of them a
\* name, a type and tags
C12_Witness ==
    /\ call.op = "createFromList"
    /\ Len(call.l_) = 4
    /\ call.l_[2] \in AccountTypes
    /\ Pieces(call.l_[3]) # {}
    /\ ret.err = "ValueError"

\* the names, types and tags Account is constructed with
ArgNames == {"n", "a b", "a\tb", "a\nb", " ", ""}
ArgTypes == AccountTypes \cup {"bogus", ""}
ArgTags == {{}, {"x", ""}}

\* Account(name, type_, tags)
CallNewAccount ==
    /\ call = Idle
    /\ \E name \in ArgNames, type_ \in ArgTypes, tags \in ArgTags :
        \E R \in {NewAccount(name, type_, tags)} :
           /\ call' = [op |-> "Account", name |-> name, type_ |-> type_,
                       tags |-> tags]
           /\ IF R.err = ""
              THEN /\ callerAcc' = <<R.obj>>
                   /\ ret' = [err |-> "", val |-> -1]
              ELSE /\ callerAcc' = <<>>
                   /\ ret' = [err |-> R.err]
    /\ UNCHANGED <<accounts, transactions, unique_transactions, heapAcc,
                   heapTx, hints, callerTx>>

NextAccount ==
    \/ CallCreateFromList
    \/ CallNewAccount
    \/ Return

SpecAccount == InitAccount /\ [][NextAccount]_vars

\* text has a whitespace character: a space, a tab or a newline
HasWhitespace(text) == \E c \in {" ", "\t", "\n"} : Occurs(c, text)

(***************************************************************************)
(* C20: Account(name, type, tags) raises ValueError exactly when the type  *)
(* is not one of the five types or the name has a whitespace character, a  *)
(* space, a tab or a newline.                                              *)
(***************************************************************************)
C20_WhitespaceNameOrBadTypeFails ==
    call.op = "Account" =>
        (ret.err = "ValueError"
            <=> (call.type_ \notin AccountTypes \/ HasWhitespace(call.name)))

(***************************************************************************)
(* The server (src/daybook/server/main.py): one ledger, the login it is    *)
(* configured with, and the four functions it registers.  Ledger.clear and *)
(* Ledger.dump are called there and defined in no file of the sources;     *)
(* they are modelled from the specification's words.                       *)
(***************************************************************************)
\* login.username, login.password as main() sets them from the config
Login == [username |-> "u", password |-> "p"]

\* A test of the username alone
AuthorizedByUsername(username, password) == username = Login.username

\* the negation of the test each of clear, dump and load begins with
Authorized(username, password) ==
    ~(~(username = Login.username) \/ ~(password = Login.password))

\* set(text.split()) if text else None.  Every test of a criterion is "not
\* criterion or ...", alike for None and for the empty set: None is {} here
WordSet(text) == IF text = "" THEN {} ELSE Range(NonEmpty(StrSplit(text, " ")))

\* set(tags.split(':')) if tags else None
ColonSet(text) == IF text = "" THEN {} ELSE Range(StrSplit(text, ":"))

\* t.src == x for an Account and a str x: Account defines no __eq__, an
\* Account is equal to itself alone
AccountEqStr(S, account, x) == FALSE

\* the currencies of t's amount: the amounts of Ledger.py are bare numbers
TxCurrencies(S, t) == {}

in_start(S, start, t) == start = None \/ start <= Txn(S, t).date

in_end(S, end, t) == end = None \/ Txn(S, t).date <= end

in_accounts(S, accounts_, t) ==
    \/ accounts_ = {}
    \/ \E x \in accounts_ : AccountEqStr(S, Txn(S, t).src, x)
    \/ \E x \in accounts_ : AccountEqStr(S, Txn(S, t).dest, x)

in_currencies(S, currencies, t) ==
    currencies = {} \/ (currencies \cap TxCurrencies(S, t)) # {}

in_types(S, types, t) ==
    \/ types = {}
    \/ Acct(S, Txn(S, t).src).type \in types
    \/ Acct(S, Txn(S, t).dest).type \in types

in_tags(S, tags, t) == tags = {} \/ (tags \cap Txn(S, t).tags) # {}

filter_transaction(S, t, start, end, accounts_, currencies, types, tags) ==
    /\ in_start(S, start, t)
    /\ in_end(S, end, t)
    /\ in_accounts(S, accounts_, t)
    /\ in_currencies(S, currencies, t)
    /\ in_types(S, types, t)
    /\ in_tags(S, tags, t)

\* ledger.clear(): all accounts and transactions are wiped
LedgerClear(S) ==
    [S EXCEPT !.accounts = <<>>, !.transactions = <<>>,
              !.unique_transactions = {}, !.heapAcc = <<>>, !.heapTx = <<>>]

\* ledger.dump(func): the transactions func selects, in the ledger's order;
\* func is the set of those it is true of
LedgerDump(S, func) == SelectSeq(S.transactions, LAMBDA t : t \in func)

\* A server that takes a request while it handles another
DispatchableAlways(c) == TRUE

\* server.serve_forever() of a SimpleXMLRPCServer: the loop takes the next
\* request when the handler of the last has returned; c is the request
\* being handled
Dispatchable(c) == c = Idle

\* a file of two valid rows
FileTwo ==
    [path |-> "d/chk.csv",
     rows |-> <<Row("1", "a", "b", "1", "x", ""),
                Row("2", "this", "a income", "2", "", "")>>]

\* the lists of files the clients send with load
ServerBatches == {<<FileTwo>>, <<FileA, FileBad, FileChk>>, <<FileDup>>}

\* what else the clients send
Usernames == {"u", "x"}
Passwords == {"p", ""}
DumpStarts == {None, 2}
DumpEnds == {None, 1}
DumpAccounts == {"", "a", "b zz"}
DumpTypes == {"", "income zz"}
DumpTags == {"", "x:"}

\* the ledger's part of the state stays as it is
LedgerUnchanged ==
    UNCHANGED <<accounts, transactions, unique_transactions, heapAcc, heapTx,
                hints>>

\* clear(username, password)
ServeClear ==
    /\ Dispatchable(call) /\ call = Idle
    /\ \E username \in Usernames, password \in Passwords :
        /\ call' = [op |-> "server.clear", phase |-> "done",
                    username |-> username, password |-> password]
        /\ IF ~Authorized(username, password)
           THEN /\ ret' = [err |-> "", val |-> 1]
                /\ LedgerUnchanged
                /\ UNCHANGED <<callerAcc, callerTx>>
           ELSE /\ ret' = [err |-> "", val |-> 0]
                /\ Becomes(LedgerClear(Cur))

\* ping()
ServePing ==
    /\ Dispatchable(call) /\ call = Idle
    /\ call' = [op |-> "server.ping", phase |-> "done"]
    /\ ret' = [err |-> "", val |-> 0]
    /\ LedgerUnchanged
    /\ UNCHANGED <<callerAcc, callerTx>>

\* dump(username, password, start, end, accounts, currencies, types, tags),
\* currencies empty.  The reply records the request the server was handling
\* when it ran.
ServeDump ==
    /\ Dispatchable(call)
    /\ \E username \in Usernames, password \in Passwords,
          start \in DumpStarts, end \in DumpEnds, accounts_ \in DumpAccounts,
          types \in DumpTypes, tags \in DumpTags :
        /\ IF call = Idle
           THEN call' = [op |-> "server.dump", phase |-> "done",
                         username |-> username, password |-> password,
                         start |-> start, end |-> end,
                         accounts |-> accounts_, currencies |-> "",
                         types |-> types, tags |-> tags]
           ELSE UNCHANGED call
        /\ IF ~Authorized(username, password)
           THEN ret' = [err |-> "", val |-> 1, during |-> call]
           ELSE ret' = [err |-> "", during |-> call,
                        val |-> LedgerDump(Cur,
                            {t \in Range(transactions) :
                                filter_transaction(Cur, t, start, end,
                                    WordSet(accounts_), WordSet(""),
                                    WordSet(types), ColonSet(tags))})]
    /\ LedgerUnchanged
    /\ UNCHANGED <<callerAcc, callerTx>>

\* load(username, password, lines): the test, then ledger.load(lines) begins
ServeLoad ==
    /\ Dispatchable(call) /\ call = Idle
    /\ \E username \in Usernames, password \in Passwords,
          lines \in ServerBatches :
        /\ Len(Load(Cur, hints, lines, 1).S.transactions) <= MaxTrans
        /\ IF ~Authorized(username, password)
           THEN /\ call' = [op |-> "server.load", phase |-> "done",
                            username |-> username, password |-> password,
                            lines |-> lines, i |-> 1, pending |-> <<>>,
                            total |-> 0]
                /\ ret' = [err |-> "", val |-> 1]
           ELSE /\ call' = [op |-> "server.load", phase |-> "read",
                            username |-> username, password |-> password,
                            lines |-> lines, i |-> 1, pending |-> <<>>,
                            total |-> 0]
                /\ ret' = NoRet
    /\ LedgerUnchanged
    /\ UNCHANGED <<callerAcc, callerTx>>

\* ledger.load, the next file: loadCsv reads its rows into newtrans, or
\* raises; after the last file load returns and the server's load returns 0
ServeLoadRead ==
    /\ call # Idle /\ call.op = "server.load" /\ call.phase = "read"
    /\ IF call.i > Len(call.lines)
       THEN /\ call' = [call EXCEPT !.phase = "done"]
            /\ ret' = [err |-> "", val |-> 0]
            /\ UNCHANGED <<callerAcc, callerTx>>
       ELSE \E R \in {ParseRows(Cur, hints, call.lines[call.i].rows,
                          SplitExtRoot(BaseName(call.lines[call.i].path)),
                          1, 1, <<>>)} :
              IF R.err # ""
              THEN /\ call' = [call EXCEPT !.phase = "done"]
                   /\ ret' = [err |-> R.err,
                              file |-> call.lines[call.i].path,
                              line |-> R.line]
                   /\ callerAcc' = <<>>
                   /\ callerTx' = <<>>
              ELSE /\ call' = [call EXCEPT !.phase = "commit",
                                           !.pending = R.newtrans,
                                           !.total = Len(R.newtrans)]
                   /\ callerAcc' = R.S.callerAcc
                   /\ callerTx' = R.S.callerTx
                   /\ UNCHANGED ret
    /\ LedgerUnchanged

\* ledger.addTransactions(newtrans), one addTransaction of its list; after
\* the last, loadCsv returns and load goes on to the next file
ServeLoadCommit ==
    /\ call # Idle /\ call.op = "server.load" /\ call.phase = "commit"
    /\ IF call.pending = <<>>
       THEN /\ call' = [call EXCEPT !.phase = "read", !.i = @ + 1,
                                    !.total = 0]
            /\ callerAcc' = <<>>
            /\ callerTx' = <<>>
            /\ LedgerUnchanged
       ELSE \E R \in {Bind(Cur, LAMBDA S0 :
                          AddTransaction(S0, Head(call.pending)))} :
              /\ Becomes(R.S)
              /\ call' = [call EXCEPT !.pending = Tail(@)]
    /\ UNCHANGED ret

\* the reply is sent and the loop goes on
ServeReturn ==
    /\ call # Idle /\ call.phase = "done"
    /\ call' = Idle
    /\ ret' = NoRet
    /\ callerAcc' = <<>>
    /\ callerTx' = <<>>
    /\ LedgerUnchanged

NextServer ==
    \/ ServeClear
    \/ ServePing
    \/ ServeDump
    \/ ServeLoad
    \/ ServeLoadRead
    \/ ServeLoadCommit
    \/ ServeReturn

SpecServer == Init /\ [][NextServer]_vars

(***************************************************************************)
(* C13: a clear, load or dump whose username or password differs from the  *)
(* configured pair replies 1, raises nothing, starts no ledger operation   *)
(* and leaves the ledger as it is; ping replies 0.                         *)
(***************************************************************************)
C13_BadCredentialsDoNothing ==
    [][/\ \A op \in {"server.clear", "server.load", "server.dump"} :
            (/\ Calls(op)
             /\ (call'.username # Login.username
                    \/ call'.password # Login.password)) =>
                /\ ret'.err = ""
                /\ ret'.val = 1
                /\ call'.phase = "done"
                /\ UNCHANGED <<accounts, transactions, unique_transactions,
                               heapAcc, heapTx>>
       /\ Calls("server.ping") =>
            /\ ret'.err = ""
            /\ ret'.val = 0
            /\ UNCHANGED <<accounts, transactions, unique_transactions,
                           heapAcc, heapTx>>
      ]_vars

\* clear has been called with the configured username and another password
\* on a ledger that holds transactions
C13_Witness ==
    /\ call.op = "server.clear"
    /\ call.username = Login.username
    /\ call.password # Login.password
    /\ ret.val = 1
    /\ transactions # <<>>

(***************************************************************************)
(* C14: a dump with account names given and no other criterion returns the *)
(* ledger's transactions whose src's name or dest's name is one of the     *)
(* names, in the ledger's order.                                           *)
(***************************************************************************)
C14_DumpSelectsByAccountName ==
    (/\ call.op = "server.dump"
     /\ call.username = Login.username /\ call.password = Login.password
     /\ call.accounts # ""
     /\ call.start = None /\ call.end = None
     /\ call.currencies = "" /\ call.types = "" /\ call.tags = "") =>
        ret.val = SelectSeq(transactions, LAMBDA t :
                     \/ heapAcc[heapTx[t].src].name \in WordSet(call.accounts)
                     \/ heapAcc[heapTx[t].dest].name \in WordSet(call.accounts))

\* In a step: the objects as they are after it
Post ==
    [accounts |-> accounts', transactions |-> transactions',
     unique_transactions |-> unique_transactions',
     heapAcc |-> heapAcc', heapTx |-> heapTx',
     callerAcc |-> callerAcc', callerTx |-> callerTx']

(***************************************************************************)
(* C15: no step of the ledger's operations, none of which is a clear,      *)
(* removes anything: each registered name stays registered and its account *)
(* keeps its tags, each transaction of the sequence stays in it with its   *)
(* identity and keeps its tags.                                            *)
(***************************************************************************)
C15_LedgerOnlyGrows ==
    [][/\ \A name \in DOMAIN accounts :
            /\ name \in DOMAIN accounts'
            /\ Acct(Cur, accounts[name]).tags
                 \subseteq Acct(Post, accounts'[name]).tags
       /\ \A t \in Range(transactions) :
            /\ t \in Range(transactions')
            /\ Identity(Post, t) = Identity(Cur, t)
            /\ Txn(Cur, t).tags \subseteq Txn(Post, t).tags
      ]_vars

\* An addTransaction has merged its argument into the first of the two
\* transactions of the ledger, which has tags
C15_Witness ==
    /\ call.op = "addTransaction"
    /\ Len(transactions) = 2
    /\ ret.val = transactions[1]
    /\ heapTx[ret.val].tags # {}

(***************************************************************************)
(* C16: the server handles one request at a time: no dump runs while a     *)
(* load has committed some and not all of the rows of a file, so none      *)
(* replies from such a ledger.                                             *)
(***************************************************************************)
C16_DumpSeesWholeFiles ==
    "during" \in DOMAIN ret =>
        ~(/\ ret.during.op = "server.load"
          /\ ret.during.phase = "commit"
          /\ 0 < Len(ret.during.pending)
          /\ Len(ret.during.pending) < ret.during.total)

\* A dump has replied with the two transactions a load committed from one
\* file
C16_Witness ==
    /\ call.op = "server.dump"
    /\ call.username = Login.username /\ call.password = Login.password
    /\ Len(transactions) = 2
    /\ ret.val = transactions
    /\ ret.during = Idle

(***************************************************************************)
(* The caller's objects after a call.  Every tags attribute is assigned    *)
(* once, in the __init__ of its object, a set built there; so a tag set is *)
(* the set of one object, and two objects share a set only if they are one *)
(* object.                                                                 *)
(***************************************************************************)
\* The caller changes an object of its own after addTransaction(t) or
\* addAccount(a) has returned: t.addTags(["z"]), t.src = t.dest, or
\* addTags(["z"]) on a, on t.src or on t.dest
CallerMutates ==
    /\ call.op \in {"addTransaction", "addAccount"}
    /\ \/ \E i \in DOMAIN callerTx :
            /\ callerTx' = [callerTx EXCEPT ![i].tags = AddTags(@, {"z"})]
            /\ UNCHANGED callerAcc
       \/ \E i \in DOMAIN callerTx :
            /\ callerTx' = [callerTx EXCEPT ![i].src = callerTx[i].dest]
            /\ UNCHANGED callerAcc
       \/ \E i \in DOMAIN callerAcc :
            /\ callerAcc' = [callerAcc EXCEPT ![i].tags = AddTags(@, {"z"})]
            /\ UNCHANGED callerTx
    /\ call' = [op |-> "mutate", of |-> call]
    /\ UNCHANGED <<accounts, transactions, unique_transactions, heapAcc,
                   heapTx, hints, ret>>

\* A client that keeps and changes what it has passed to the ledger
NextAlias ==
    \/ CallAddTransaction({t \in ArgTxs : t.date < 3})
    \/ CallAddAccount
    \/ CallerMutates
    \/ Return

SpecAlias == Init /\ [][NextAlias]_vars

\* Every object the ledger holds is one it constructed: the transactions of
\* its sequence and of its dictionary, their src and dest, the accounts of
\* its mapping and the transactions they index
HoldsOnlyItsOwn(S) ==
    /\ \A t \in Range(S.transactions) :
         t > 0 /\ Txn(S, t).src > 0 /\ Txn(S, t).dest > 0
    /\ \A name \in DOMAIN S.accounts :
         /\ S.accounts[name] > 0
         /\ \A t \in Range(Acct(S, S.accounts[name]).transactions) : t > 0
    /\ \A e \in S.unique_transactions : e.key > 0 /\ e.val > 0

\* What the ledger shows: its transactions with their accounts, and its
\* accounts by name
LedgerView(S) ==
    [transactions |->
         [i \in DOMAIN S.transactions |->
              [Txn(S, S.transactions[i]) EXCEPT
                  !.src = Acct(S, @), !.dest = Acct(S, @)]],
     accounts |-> [name \in DOMAIN S.accounts |-> Acct(S, S.accounts[name])]]

(***************************************************************************)
(* C17: the ledger holds no object of the caller's: after addTransaction(t)*)
(* or addAccount(a) every transaction of its sequence and every account of *)
(* its mapping, src and dest included, is an object the ledger constructed *)
(* (with the tag set of its own), and a later change of the caller's t or  *)
(* a (tags, src, dest) changes nothing the ledger shows.                   *)
(***************************************************************************)
C17_LedgerHoldsNoCallerObject ==
    [][/\ HoldsOnlyItsOwn(Post)
       /\ call'.op = "mutate" => LedgerView(Post) = LedgerView(Cur)
      ]_vars

\* The caller has tagged the transaction it had added, and the ledger's
\* transaction is without the tag
C17_Witness ==
    /\ call.op = "mutate"
    /\ call.of.op = "addTransaction"
    /\ "z" \in callerTx[1].tags
    /\ ret.val \in Range(transactions)
    /\ "z" \notin heapTx[ret.val].tags

(***************************************************************************)
(* C18: in every state, the transactions of each account of the ledger's   *)
(* mapping are exactly the transactions of the ledger's sequence that have *)
(* the account as src or as dest, each of them once.                       *)
(***************************************************************************)
C18_IndexHoldsEachTransactionOnce ==
    \A name \in DOMAIN accounts :
        LET A == accounts[name]
            index == Acct(Cur, A).transactions
        IN /\ Range(index) =
                {t \in Range(transactions) :
                    Txn(Cur, t).src = A \/ Txn(Cur, t).dest = A}
           /\ \A i, j \in DOMAIN index : i # j => index[i] # index[j]

(***************************************************************************)
(* C19: suggestAccount on any text returns an Account or raises            *)
(* ValueError, a text without a token raising ValueError as createFromList *)
(* does on an empty list; so a loadCsv that fails raises the ValueError    *)
(* that names the file and the line of the row.                            *)
(***************************************************************************)
C19_NoTokenIsValueError ==
    /\ call.op = "suggestAccount" =>
          /\ ret.err \in {"", "ValueError"}
          /\ NonEmpty(StrSplit(call.string, " ")) = <<>> =>
                ret.err = CreateFromList(<<>>).err
    /\ (call.op = "loadCsv" /\ ret.err # "") =>
          ret.err = "ValueError" /\ ret.line # None

(***************************************************************************)
(* Account.addTransaction and Account.addTransactions.  Account defines no *)
(* __eq__, so self in [x.src, x.dest] is a test of identity.               *)
(***************************************************************************)
MaxIndex == 3

\* self in [x.src, x.dest]
Involves(S, self, x) == self = Txn(S, x).src \/ self = Txn(S, x).dest

\* An addTransactions that takes the whole list
AccountAddTransactionsKeepsAll(S, self, ts) ==
    SetAcct(S, self, [Acct(S, self) EXCEPT !.transactions = @ \o ts])

\* Account.addTransactions(transactions) on the account self
AccountAddTransactions(S, self, ts) ==
    SetAcct(S, self, [Acct(S, self) EXCEPT
        !.transactions = @ \o SelectSeq(ts, LAMBDA x : Involves(S, self, x))])

\* Account.addTransaction(trans) on the account self: the state after it,
\* or the ValueError
AccountAddTransaction(S, self, trans) ==
    IF ~Involves(S, self, trans) THEN [err |-> "ValueError", S |-> S]
    ELSE [err |-> "", S |-> IndexIn(S, self, trans)]

\* account.addTransaction(trans), account and trans of the ledger's
CallAccountAddTransaction ==
    /\ call = Idle
    /\ \E self \in DOMAIN heapAcc, trans \in DOMAIN heapTx :
        \E R \in {AccountAddTransaction(Cur, self, trans)} :
           /\ Len(Acct(R.S, self).transactions) <= MaxIndex
           /\ Becomes(R.S)
           /\ call' = [op |-> "Account.addTransaction", self |-> self,
                       trans |-> trans]
           /\ ret' = [err |-> R.err]

\* account.addTransactions(ts), account and the elements of ts of the
\* ledger's
CallAccountAddTransactions ==
    /\ call = Idle
    /\ \E self \in DOMAIN heapAcc,
          ts \in {<<>>} \cup SeqsUpTo(DOMAIN heapTx, MaxBatch) :
        \E S1 \in {AccountAddTransactions(Cur, self, ts)} :
           /\ Len(Acct(S1, self).transactions) <= MaxIndex
           /\ Becomes(S1)
           /\ call' = [op |-> "Account.addTransactions", self |-> self,
                       transactions |-> ts]
           /\ ret' = NoRet

\* A client that adds to the accounts' lists itself
NextIndex ==
    \/ CallAddTransaction({t \in ArgTxs : t.date < 3 /\ t.tags = {}})
    \/ CallAccountAddTransaction
    \/ CallAccountAddTransactions
    \/ Return

SpecIndex == Init /\ [][NextIndex]_vars

(***************************************************************************)
(* C21: Account.addTransaction(t) on an account that is neither t.src nor  *)
(* t.dest raises ValueError and leaves the account's transactions as they  *)
(* were; Account.addTransactions(list) never raises, and appends, in the   *)
(* order of the list, exactly the elements that have the account as src or *)
(* dest.                                                                   *)
(***************************************************************************)
C21_SingularRaisesBulkSkips ==
    [][/\ (/\ Calls("Account.addTransaction")
           /\ ~Involves(Cur, call'.self, call'.trans)) =>
              /\ ret'.err = "ValueError"
              /\ Acct(Post, call'.self).transactions
                   = Acct(Cur, call'.self).transactions
       /\ Calls("Account.addTransactions") =>
              /\ ret'.err = ""
              /\ Acct(Post, call'.self).transactions
                   = Acct(Cur, call'.self).transactions
                       \o SelectSeq(call'.transactions, LAMBDA x :
                              \/ Txn(Cur, x).src = call'.self
                              \/ Txn(Cur, x).dest = call'.self)
      ]_vars

\* An addTransactions has been given a list of a transaction of the account
\* and one of other accounts, and the account's list has grown by one
C21_Witness ==
    /\ call.op = "Account.addTransactions"
    /\ Len(call.transactions) = 2
    /\ Involves(Cur, call.self, call.transactions[2])
    /\ ~Involves(Cur, call.self, call.transactions[1])
    /\ Len(heapAcc[call.self].transactions) = 2

(***************************************************************************)
(* A file loaded again.  The Accounts a loadCsv builds of the rows stay    *)
(* with the caller until it drops them: those of row i are the objects     *)
(* 2i-1 and 2i.                                                            *)
(***************************************************************************)
\* a file whose first row a hint renames, and whose second registers the
\* first token of the first
FileHinted ==
    [path |-> "a.csv",
     rows |-> <<Row("1", "a k", "b", "1", "", ""),
                Row("2", "b", "a", "2", "", "")>>]

ReloadFiles == CsvFiles \cup {FileHinted}

\* ledger.loadCsv(csvfile) once more, after a loadCsv(csvfile) that has
\* returned
CallLoadCsvAgain ==
    /\ call.op = "loadCsv"
    /\ ret.err = ""
    /\ \E R \in {Bind([Cur EXCEPT !.callerAcc = <<>>, !.callerTx = <<>>],
                       LAMBDA S0 : LoadCsv(S0, hints, call.csvfile))} :
           /\ accounts' = R.S.accounts
           /\ transactions' = R.S.transactions
           /\ unique_transactions' = R.S.unique_transactions
           /\ heapAcc' = R.S.heapAcc
           /\ heapTx' = R.S.heapTx
           /\ call' = [op |-> "loadCsv again", csvfile |-> call.csvfile]
           /\ ret' = [x \in DOMAIN R \ {"S"} |-> R[x]]
    /\ UNCHANGED <<hints, callerAcc, callerTx>>

\* A client that loads files, some of them twice
NextReload ==
    \/ CallLoadCsv(ReloadFiles)
    \/ CallLoadCsvAgain
    \/ Return

SpecReload == Init /\ [][NextReload]_vars

\* the name suggestAccount makes of text in S for the file csvfile, None
\* where it raises
SuggestedName(S, h, text, csvfile) ==
    Bind(SuggestAccount(S, h, text, SplitExtRoot(BaseName(csvfile.path))),
         LAMBDA R : IF R.err = "" THEN R.obj.name ELSE None)

\* After a loadCsv of csvfile: every row's src and dest make, in the ledger
\* as it is now, the names they made in that load
ResolvesAsBefore(S, h, csvfile) ==
    \A i \in DOMAIN csvfile.rows :
        /\ SuggestedName(S, h, csvfile.rows[i].src, csvfile)
              = S.callerAcc[2 * i - 1].name
        /\ SuggestedName(S, h, csvfile.rows[i].dest, csvfile)
              = S.callerAcc[2 * i].name

(***************************************************************************)
(* C22, as amended: after a loadCsv(f) that succeeded, a second loadCsv(f) *)
(* with the same hints succeeds and adds no account and no transaction,    *)
(* provided every row's src and dest make, in the ledger the first load    *)
(* left, the account names they made in the first load.                    *)
(***************************************************************************)
C22_ReloadAddsNothingWhereNamesStay ==
    [][(/\ call'.op = "loadCsv again"
        /\ ResolvesAsBefore(Cur, hints, call.csvfile)) =>
           /\ ret'.err = ""
           /\ DOMAIN accounts' = DOMAIN accounts
           /\ Len(transactions') = Len(transactions)
      ]_vars

\* A file of two rows, one of them renamed by a hint, has been loaded twice
\* with its rows making the same names, and the ledger has the transactions
\* of the two rows
C22_Witness ==
    /\ call.op = "loadCsv again"
    /\ ret.err = ""
    /\ Len(call.csvfile.rows) = 2
    /\ Len(callerAcc) = 4
    /\ callerAcc[1].name = "g"
    /\ ResolvesAsBefore(Cur, hints, call.csvfile)
    /\ Len(transactions) = 2

(***************************************************************************)
(* C22: after a loadCsv(f) that succeeded, a second loadCsv(f) with the    *)
(* same hints adds no account and no transaction.                          *)
(***************************************************************************)
C22_ReloadAddsNothing ==
    [][call'.op = "loadCsv again" =>
           /\ DOMAIN accounts' = DOMAIN accounts
           /\ Len(transactions') = Len(transactions)
      ]_vars

(***************************************************************************)
(* C23: an addTransaction(t) that finds a transaction of t's identity in   *)
(* the dictionary changes nothing but the tags of that transaction: the    *)
(* account mapping, every account (type, tags and transactions), the       *)
(* transaction sequence, the dictionary, and the date, src, dest, amount   *)
(* and notes of every transaction stay, whatever type and tags t.src and   *)
(* t.dest have.                                                            *)
(***************************************************************************)
C23_MergeChangesTagsOnly ==
    [][(Calls("addTransaction") /\ DictFind(Pre, call'.t) # {}) =>
           /\ accounts' = accounts
           /\ heapAcc' = heapAcc
           /\ transactions' = transactions
           /\ unique_transactions' = unique_transactions
           /\ DOMAIN heapTx' = DOMAIN heapTx
           /\ \A r \in DOMAIN heapTx :
                 /\ [heapTx'[r] EXCEPT !.tags = {}]
                      = [heapTx[r] EXCEPT !.tags = {}]
                 /\ r # ret'.val => heapTx'[r] = heapTx[r]
      ]_vars

\* An addTransaction has been merged into the one transaction of the
\* ledger, and its src is an income account with the tag x where the
\* ledger's is an asset account without it
C23_Witness ==
    /\ call.op = "addTransaction"
    /\ Len(heapTx) = 1
    /\ ret.val = 1
    /\ callerAcc[-callerTx[1].src].type = "income"
    /\ "x" \in callerAcc[-callerTx[1].src].tags
    /\ heapAcc[heapTx[1].src].type = "asset"
    /\ "x" \notin heapAcc[heapTx[1].src].tags
    /\ heapTx[1].tags # {}

====
